---- MODULE Spec2Model ----
(***************************************************************************)
(* The type-documentation extractor of sites/svelte.dev                    *)
(* (scripts/type-gen/index.js): get_types, munge_type_element and the      *)
(* top-level script that collects the module records.                      *)
(*                                                                         *)
(* A JavaScript string is modelled as the sequence of its UTF-16 code      *)
(* units, each written as a one-character TLA+ string ("..." stands for    *)
(* the single code unit U+2026 and "U+0060" for the backquote, which a     *)
(* TLA+ string cannot hold).  Offsets are JavaScript offsets: the          *)
(* first code unit of a string is at index 0.  The TypeScript parser and   *)
(* the formatter are libraries: the parser is modelled by the nodes it     *)
(* yields for a source text (Parse), and the formatter pass of lines       *)
(* 87-96 is left out, so a record carries snippet_unformatted, the text    *)
(* handed to the formatter.                                                *)
(***************************************************************************)
EXTENDS Integers, Sequences, FiniteSets, TLC

\* --------------------------------------------------------------------------
\* JavaScript values and the String methods the script calls
\* --------------------------------------------------------------------------

\* `undefined`: a value that is no string (no string holds a code unit of this name).
Undefined == <<"undefined">>

Min(a, b) == IF a < b THEN a ELSE b

Max(a, b) == IF a < b THEN b ELSE a

\* The white space String.prototype.trim removes, among the code units of the inputs.
WhiteSpace == {" ", "\n", "\t"}

\* The printable ASCII code units in code order, U+0020 first.
Ascii == <<" ", "!", "\"", "#", "$", "%", "&", "'", "(", ")", "*", "+", ",", "-", ".", "/", "0",
      "1", "2", "3", "4", "5", "6", "7", "8", "9", ":", ";", "<", "=", ">", "?", "@", "A", "B", "C",
      "D", "E", "F", "G", "H", "I", "J", "K", "L", "M", "N", "O", "P", "Q", "R", "S", "T", "U", "V",
      "W", "X", "Y", "Z", "[", "\\", "]", "^", "_", "U+0060", "a", "b", "c", "d", "e", "f", "g",
      "h", "i", "j", "k", "l", "m", "n", "o", "p", "q", "r", "s", "t", "u", "v", "w", "x", "y", "z",
      "{", "|", "}", "~">>

\* The numeric value of a code unit.
CharCode(c) ==
  CASE c = "\t" -> 9
    [] c = "\n" -> 10
    [] c = "..." -> 8230
    [] OTHER -> 31 + (CHOOSE k \in 1..Len(Ascii) : Ascii[k] = c)

\* s[i]: the code unit at index i as a string, undefined outside the string.
CharAt(s, i) == IF i >= 0 /\ i < Len(s) THEN <<s[i + 1]>> ELSE Undefined

\* s.slice(from, to)
slice(s, from, to) ==
  LET len == Len(s)
      a == IF from < 0 THEN Max(len + from, 0) ELSE Min(from, len)
      b == IF to < 0 THEN Max(len + to, 0) ELSE Min(to, len)
  IN  SubSeq(s, a + 1, b)

RECURSIVE FirstAt(_, _, _)
\* The first offset at or after k at which searchString occurs in s, or -1.
FirstAt(s, searchString, k) ==
  IF k + Len(searchString) > Len(s) THEN -1
  ELSE IF SubSeq(s, k + 1, k + Len(searchString)) = searchString THEN k
  ELSE FirstAt(s, searchString, k + 1)

\* s.indexOf(searchString, position): -1 when there is no occurrence at or after position.
indexOf(s, searchString, position) == FirstAt(s, searchString, Min(Max(position, 0), Len(s)))

RECURSIVE TrimStart(_, _)
\* The offset of the first code unit of s at or after k that is no white space.
TrimStart(s, k) ==
  IF k < Len(s) /\ s[k + 1] \in WhiteSpace THEN TrimStart(s, k + 1) ELSE k

RECURSIVE TrimEnd(_, _)
\* The offset after the last code unit of s before k that is no white space.
TrimEnd(s, k) ==
  IF k > 0 /\ s[k] \in WhiteSpace THEN TrimEnd(s, k - 1) ELSE k

\* s.trim()
trim(s) == SubSeq(s, TrimStart(s, 0) + 1, TrimEnd(s, Len(s)))

\* A value interpolated into a template literal.
TemplateString(v) == IF v = Undefined THEN <<"u", "n", "d", "e", "f", "i", "n", "e", "d">> ELSE v

\* Truthiness of a string or undefined.
Truthy(v) == v # Undefined /\ v # <<>>

RECURSIVE StringLess(_, _)
\* a < b for two strings: by code units, a proper prefix first.
StringLess(a, b) ==
  IF b = <<>> THEN FALSE
  ELSE IF a = <<>> THEN TRUE
  ELSE IF a[1] = b[1] THEN StringLess(Tail(a), Tail(b))
  ELSE CharCode(a[1]) < CharCode(b[1])

\* a < b as JavaScript evaluates it for operands that are strings or undefined:
\* with an undefined operand both are converted to numbers, undefined to NaN, and
\* every comparison with NaN is false.
LessThan(a, b) == a # Undefined /\ b # Undefined /\ StringLess(a, b)

RECURSIVE Concat(_)
\* The concatenation of a sequence of strings.
Concat(ss) == IF ss = <<>> THEN <<>> ELSE Head(ss) \o Concat(Tail(ss))

\* --------------------------------------------------------------------------
\* The parser: source text -> nodes (ts.createSourceFile)
\* --------------------------------------------------------------------------

\* SyntaxKind.ExportKeyword, as the script spells it.
ExportKeyword == 93

\* The keyword a modifier of each kind is written as (88: default).
ModifierText(kind) ==
  CASE kind = ExportKeyword -> <<"e", "x", "p", "o", "r", "t">>
    [] kind = 88 -> <<"d", "e", "f", "a", "u", "l", "t">>

\* A written JSDoc block: its text, and the description and tags the parser
\* reads from it.  The parser gives a block without description text the
\* comment undefined.  A node's jsDoc is modelled as the sequence of its blocks:
\* the parser sets the property only when there is one, so the sequence is empty
\* exactly when the property is undefined.  In the same way modifiers is empty
\* when ts.getModifiers yields undefined.
JSDoc(text, comment, tags) == [text |-> text, comment |-> comment, tags |-> tags]

\* A JSDoc tag: tagName.escapedText, the text of its name (a param tag has one)
\* and its comment.
JSDocTag(tagName, name, comment) == [tagName |-> tagName, name |-> name, comment |-> comment]

\* The type of a member: a type literal with its members, or any other type.
TypeLiteral(members) == [kind |-> "TypeLiteral", members |-> members]

OtherType == [kind |-> "TypeReference", members |-> <<>>]

\* A written type element: its JSDoc blocks, each on a line of its own after
\* indent, then text, which is what getText() returns; name is its
\* name.escapedText.
TypeElement(indent, docs, kind, name, text, type) ==
  [indent |-> indent, docs |-> docs, kind |-> kind, name |-> name, text |-> text,
   type |-> type]

\* The leading trivia of a written type element.
Lead(m) == Concat([k \in DOMAIN m.docs |-> m.indent \o m.docs[k].text]) \o m.indent

\* A written statement: leading trivia, JSDoc blocks (each followed by a line
\* break), modifiers (each followed by gap), head (from the declaration keyword
\* to the members or the end), the members of an interface and the tail that
\* closes it.  name is name.escapedText, declarations the names of the
\* bindings of a variable statement.
Statement(trivia, docs, modifiers, gap, kind, head, name, declarations, members, tail) ==
  [trivia |-> trivia, docs |-> docs, modifiers |-> modifiers, gap |-> gap, kind |-> kind,
   head |-> head, name |-> name, declarations |-> declarations, members |-> members,
   tail |-> tail]

DocsText(docs) == Concat([k \in DOMAIN docs |-> docs[k].text \o <<"\n">>])

ModifiersText(s) == Concat([k \in DOMAIN s.modifiers |-> ModifierText(s.modifiers[k]) \o s.gap])

MembersText(members) == Concat([k \in DOMAIN members |-> Lead(members[k]) \o members[k].text])

\* The source text of a written statement.
StatementText(s) ==
  s.trivia \o DocsText(s.docs) \o ModifiersText(s) \o s.head \o MembersText(s.members) \o s.tail

\* The source text of a file: its statements one after the other.
FileText(written) == Concat([k \in DOMAIN written |-> StatementText(written[k])])

RECURSIVE TypeElementNode(_)
\* The node of a written type element, without its offsets.
TypeElementNode(m) ==
  [kind |-> m.kind,
   name |-> m.name,
   text |-> m.text,
   jsDoc |-> [k \in DOMAIN m.docs |->
               [comment |-> m.docs[k].comment, tags |-> m.docs[k].tags]],
   type |-> [kind |-> m.type.kind,
             members |-> [k \in DOMAIN m.type.members |->
                           TypeElementNode(m.type.members[k])]]]

\* The node of the written statement s that starts at offset `at`: pos is the
\* end of the token before it (so its leading trivia and JSDoc lie inside
\* pos..end), jsDoc[k].end the end of its k-th JSDoc block (jsDoc[1] is the
\* script's jsDoc[0]), modifiers[k].end the end of its k-th modifier keyword; a
\* member's pos is the end of the token before the member.
StatementNode(s, at) ==
  LET docsAt == at + Len(s.trivia)
      modifiersAt == docsAt + Len(DocsText(s.docs))
      membersAt == modifiersAt + Len(ModifiersText(s)) + Len(s.head)
      memberPos(k) == membersAt + Len(MembersText(SubSeq(s.members, 1, k - 1)))
  IN  [kind |-> s.kind,
       pos |-> at,
       end |-> at + Len(StatementText(s)),
       modifiers |-> [k \in DOMAIN s.modifiers |->
                       [kind |-> s.modifiers[k],
                        end |-> modifiersAt
                                  + Len(ModifiersText([s EXCEPT !.modifiers = SubSeq(@, 1, k)]))
                                  - Len(s.gap)]],
       name |-> s.name,
       declarationList |-> [declarations |-> [k \in DOMAIN s.declarations |->
                                               [name |-> s.declarations[k]]]],
       jsDoc |-> [k \in DOMAIN s.docs |->
                   [end |-> docsAt + Len(DocsText(SubSeq(s.docs, 1, k - 1)))
                              + Len(s.docs[k].text),
                    comment |-> s.docs[k].comment,
                    tags |-> s.docs[k].tags]],
       members |-> [k \in DOMAIN s.members |->
                     [pos |-> memberPos(k), end |-> memberPos(k + 1)]
                       @@ TypeElementNode(s.members[k])]]

\* node.statements of the source file whose text is FileText(written).
Parse(written) ==
  [k \in DOMAIN written |->
     StatementNode(written[k], Len(FileText(SubSeq(written, 1, k - 1))))]

\* --------------------------------------------------------------------------
\* The declaration files the extractor is run on
\* --------------------------------------------------------------------------

NoMembers == <<>>

NoDocs == <<>>

\* /** Foo doc */ export interface Foo { a; b(x); c: {d}; e: {g} }: a is
\* documented, b has four tags, d is documented, and the JSDoc of g holds only a tag
InterfaceFoo ==
  Statement(<<"\n">>, <<JSDoc(<<"/", "*", "*", " ", "F", "o", "o", " ", "d", "o", "c", " ", "*",
        "/">>, <<"F", "o", "o", " ", "d", "o", "c">>, <<>>)>>, <<ExportKeyword>>, <<" ">>,
    "InterfaceDeclaration", <<"i", "n", "t", "e", "r", "f", "a", "c", "e", " ", "F", "o", "o", " ",
          "{">>, <<"F", "o", "o">>, <<>>,
    <<TypeElement(<<"\n", "\t">>, <<JSDoc(<<"/", "*", "*", " ", "d", " ", "*", "/">>, <<"d">>,
          <<>>)>>,
        "PropertySignature", <<"a">>, <<"a", ":", " ", "s", "t", "r", "i", "n", "g", ";">>,
              OtherType),
      TypeElement(<<"\n", "\t">>,
        <<JSDoc(<<"/", "*", "*", "\n", "\t", " ", "*", " ", "@", "p", "a", "r", "a", "m", " ", "x",
              " ", "p", "x", "\n", "\t", " ", "*", " ", "@", "s", "e", "e", " ", "y", "\n", "\t",
              " ", "*", " ", "@", "d", "e", "f", "a", "u", "l", "t", " ", "1", "\n", "\t", " ", "*",
              " ", "@", "r", "e", "t", "u", "r", "n", "s", "\n", "\t", " ", "*", "/">>,
            Undefined,
            <<JSDocTag(<<"p", "a", "r", "a", "m">>, <<"x">>, <<"p", "x">>), JSDocTag(<<"s", "e",
                  "e">>, Undefined, <<"y">>),
              JSDocTag(<<"d", "e", "f", "a", "u", "l", "t">>, Undefined, <<"1">>),
              JSDocTag(<<"r", "e", "t", "u", "r", "n", "s">>, Undefined, Undefined)>>)>>,
        "MethodSignature", <<"b">>, <<"b", "(", "x", ":", " ", "n", "u", "m", "b", "e", "r", ")",
              ":", " ", "v", "o", "i", "d", ";">>, OtherType),
      TypeElement(<<"\n", "\t">>, NoDocs, "PropertySignature", <<"c">>,
        <<"c", ":", " ", "{", "\n", "\t", "\t", "/", "*", "*", " ", "e", " ", "*", "/", "\n", "\t",
              "\t", "d", ":", " ", "n", "u", "m", "b", "e", "r", ";", "\n", "\t", "}", ";">>,
        TypeLiteral(<<TypeElement(<<"\n", "\t", "\t">>, <<JSDoc(<<"/", "*", "*", " ", "e", " ", "*",
              "/">>, <<"e">>, <<>>)>>,
                        "PropertySignature", <<"d">>, <<"d", ":", " ", "n", "u", "m", "b", "e", "r",
                              ";">>, OtherType)>>)),
      TypeElement(<<"\n", "\t">>, NoDocs, "PropertySignature", <<"e">>,
        <<"e", ":", " ", "{", "\n", "\t", "\t", "/", "*", "*", " ", "@", "d", "e", "f", "a", "u",
              "l", "t", " ", "1", " ", "*", "/", "\n", "\t", "\t", "g", ":", " ", "n", "u", "m",
              "b", "e", "r", ";", "\n", "\t", "}", ";">>,
        TypeLiteral(<<TypeElement(<<"\n", "\t", "\t">>,
                        <<JSDoc(<<"/", "*", "*", " ", "@", "d", "e", "f", "a", "u", "l", "t", " ",
                              "1", " ", "*", "/">>, Undefined,
                            <<JSDocTag(<<"d", "e", "f", "a", "u", "l", "t">>, Undefined,
                                  <<"1">>)>>)>>,
                        "PropertySignature", <<"g">>, <<"g", ":", " ", "n", "u", "m", "b", "e", "r",
                              ";">>, OtherType)>>))>>,
    <<"\n", "}">>)

\* export interface Bar {a:string}: the closing brace directly after the member
InterfaceBar ==
  Statement(<<"\n">>, NoDocs, <<ExportKeyword>>, <<" ">>,
    "InterfaceDeclaration", <<"i", "n", "t", "e", "r", "f", "a", "c", "e", " ", "B", "a", "r", " ",
          "{">>, <<"B", "a", "r">>, <<>>,
    <<TypeElement(<<>>, NoDocs, "PropertySignature", <<"a">>, <<"a", ":", "s", "t", "r", "i", "n",
          "g">>, OtherType)>>,
    <<"}">>)

\* export  interface Baz {a:{b:string};  }: two blanks after `export`
InterfaceBaz ==
  Statement(<<"\n">>, NoDocs, <<ExportKeyword>>, <<" ", " ">>,
    "InterfaceDeclaration", <<"i", "n", "t", "e", "r", "f", "a", "c", "e", " ", "B", "a", "z", " ",
          "{">>, <<"B", "a", "z">>, <<>>,
    <<TypeElement(<<>>, NoDocs, "PropertySignature", <<"a">>, <<"a", ":", "{", "b", ":", "s", "t",
          "r", "i", "n", "g", "}", ";">>,
        TypeLiteral(<<TypeElement(<<>>, NoDocs, "PropertySignature", <<"b">>, <<"b", ":", "s", "t",
              "r", "i", "n", "g">>,
                        OtherType)>>))>>,
    <<" ", " ", "}">>)

\* /** @deprecated */ export function g(): void;
FunctionG ==
  Statement(<<"\n">>,
    <<JSDoc(<<"/", "*", "*", " ", "@", "d", "e", "p", "r", "e", "c", "a", "t", "e", "d", " ", "*",
          "/">>, Undefined, <<JSDocTag(<<"d", "e", "p", "r", "e", "c", "a", "t", "e", "d">>,
          Undefined, Undefined)>>)>>,
    <<ExportKeyword>>, <<" ">>, "FunctionDeclaration", <<"f", "u", "n", "c", "t", "i", "o", "n",
          " ", "g", "(", ")", ":", " ", "v", "o", "i", "d", ";">>, <<"g">>, <<>>,
    NoMembers, <<>>)

\* /** c */ export const a: number;
ConstA ==
  Statement(<<"\n">>, <<JSDoc(<<"/", "*", "*", " ", "c", " ", "*", "/">>, <<"c">>, <<>>)>>,
        <<ExportKeyword>>, <<" ">>,
    "VariableStatement", <<"c", "o", "n", "s", "t", " ", "a", ":", " ", "n", "u", "m", "b", "e",
          "r", ";">>, Undefined, <<<<"a">>>>, NoMembers, <<>>)

\* export function f(x: number): void; after a line comment that says `export`
FunctionF ==
  Statement(<<"\n", "/", "/", " ", "e", "x", "p", "o", "r", "t", " ", "f", "\n">>, NoDocs,
        <<ExportKeyword>>, <<" ">>,
    "FunctionDeclaration", <<"f", "u", "n", "c", "t", "i", "o", "n", " ", "f", "(", "x", ":", " ",
          "n", "u", "m", "b", "e", "r", ")", ":", " ", "v", "o", "i", "d", ";">>, <<"f">>, <<>>,
          NoMembers, <<>>)

\* export default class {}: a declaration without a name
DefaultClass ==
  Statement(<<"\n">>, NoDocs, <<ExportKeyword, 88>>, <<" ">>,
    "ClassDeclaration", <<"c", "l", "a", "s", "s", " ", "{", "}">>, Undefined, <<>>, NoMembers,
          <<>>)

\* export type b = number;
TypeB ==
  Statement(<<"\n">>, NoDocs, <<ExportKeyword>>, <<" ">>,
    "TypeAliasDeclaration", <<"t", "y", "p", "e", " ", "b", " ", "=", " ", "n", "u", "m", "b", "e",
          "r", ";">>, <<"b">>, <<>>, NoMembers, <<>>)

\* export namespace a {}
NamespaceA ==
  Statement(<<"\n">>, NoDocs, <<ExportKeyword>>, <<" ">>,
    "ModuleDeclaration", <<"n", "a", "m", "e", "s", "p", "a", "c", "e", " ", "a", " ", "{", "}">>,
          <<"a">>, <<>>, NoMembers, <<>>)

\* export enum E {}: exported, and none of the six kinds
EnumE ==
  Statement(<<"\n">>, NoDocs, <<ExportKeyword>>, <<" ">>,
    "EnumDeclaration", <<"e", "n", "u", "m", " ", "E", " ", "{", "}">>, <<"E">>, <<>>, NoMembers,
          <<>>)

\* interface H {}: no modifiers
PlainH ==
  Statement(<<"\n">>, NoDocs, <<>>, <<" ">>,
    "InterfaceDeclaration", <<"i", "n", "t", "e", "r", "f", "a", "c", "e", " ", "H", " ", "{",
          "}">>, <<"H">>, <<>>, NoMembers, <<>>)

\* The statements a declaration file is written from.
Statements ==
  {InterfaceFoo, InterfaceBar, InterfaceBaz, FunctionG, ConstA, FunctionF, DefaultClass,
   TypeB, NamespaceA, EnumE, PlainH}

\* The longest statement list of a file.
MaxStatements == 3

\* The sequences over S of at most n elements.
SeqsUpTo(S, n) == UNION {[1..k -> S] : k \in 0..n}

\* --------------------------------------------------------------------------
\* munge_type_element
\* --------------------------------------------------------------------------

RECURSIVE Without(_, _)
\* s without the code units at the (1-based) positions in drop.
Without(s, drop) ==
  IF s = <<>> THEN <<>>
  ELSE LET front == Without(SubSeq(s, 1, Len(s) - 1), drop)
       IN  IF Len(s) \in drop THEN front ELSE Append(front, s[Len(s)])

\* snippet.replace(/^\t/gm, ''): one tab less at the start of every line.
StripTab(s) == Without(s, {k \in 1..Len(s) : s[k] = "\t" /\ (k = 1 \/ s[k - 1] = "\n")})

RECURSIVE StripTabs(_, _)
\* The loop of lines 127-129: StripTab, depth times.
StripTabs(s, depth) == IF depth <= 0 THEN s ELSE StripTabs(StripTab(s), depth - 1)

RECURSIVE ReplaceTypeMarkers(_)
\* s.replace(/\/\/\/ type: (.+)/g, '/** @type {$1} */'): the marker and the rest
\* of its line (at least one code unit) become a type annotation comment.
ReplaceTypeMarkers(s) ==
  LET marker == <<"/", "/", "/", " ", "t", "y", "p", "e", ":", " ">>
      hits == {k \in 0..(Len(s) - Len(marker) - 1) :
                 /\ SubSeq(s, k + 1, k + Len(marker)) = marker
                 /\ s[k + Len(marker) + 1] # "\n"}
  IN  IF hits = {} THEN s
      ELSE LET k == CHOOSE h \in hits : \A j \in hits : h <= j
               from == k + Len(marker)
               nl == indexOf(s, <<"\n">>, from)
               to == IF nl = -1 THEN Len(s) ELSE nl
           IN  slice(s, 0, k) \o <<"/", "*", "*", " ", "@", "t", "y", "p", "e", " ",
                 "{">> \o slice(s, from, to) \o <<"}", " ", "*", "/">>
                 \o ReplaceTypeMarkers(slice(s, to, Len(s)))

RECURSIVE IndentToTabs(_)
\* s.replace(/^(  )+/gm, match => '\t'.repeat(match.length / 2)): at the start of
\* every line each pair of blanks becomes one tab.
IndentToTabs(s) ==
  IF s = <<>> THEN <<>>
  ELSE LET blanks == CHOOSE n \in 0..Len(s) :
                       /\ \A k \in 1..n : s[k] = " "
                       /\ (n < Len(s) => s[n + 1] # " ")
           pairs == blanks \div 2
           nl == indexOf(s, <<"\n">>, 0)
           lineEnd == IF nl = -1 THEN Len(s) ELSE nl + 1
       IN  [k \in 1..pairs |-> "\t"] \o slice(s, 2 * pairs, lineEnd)
             \o IndentToTabs(slice(s, lineEnd, Len(s)))

\* The index a `while (s[a] !== ch) a += 1` loop started at `from` stops at.  Past
\* the end of s every s[a] is undefined, so a loop that gets there never stops.
Diverges == -1

RECURSIVE ScanForward(_, _, _)
ScanForward(s, ch, from) ==
  IF from >= Len(s) THEN Diverges
  ELSE IF CharAt(s, from) = ch THEN from
  ELSE ScanForward(s, ch, from + 1)

RECURSIVE ScanBackward(_, _, _)
\* The same for `while (s[a] !== ch) a -= 1`: below index 0 it never stops.
ScanBackward(s, ch, from) ==
  IF from < 0 THEN Diverges
  ELSE IF CharAt(s, from) = ch THEN from
  ELSE ScanBackward(s, ch, from - 1)

isPropertySignature(node) == node.kind = "PropertySignature"

isTypeLiteralNode(node) == node.kind = "TypeLiteral"

\* doc?.tags ?? [] for doc = member.jsDoc?.[0]
TagsOf(member) == IF member.jsDoc = <<>> THEN <<>> ELSE member.jsDoc[1].tags

\* The condition of lines 131-135.
HasDocumentedMembers(member) ==
  /\ isPropertySignature(member)
  /\ isTypeLiteralNode(member.type)
  /\ \E k \in DOMAIN member.type.members :
       /\ member.type.members[k].jsDoc # <<>>
       /\ Truthy(member.type.members[k].jsDoc[1].comment)

\* The bullet of a tag the switch of lines 152-167 knows.
Bullet(tag) ==
  CASE tag.tagName = <<"p", "a", "r", "a", "m">> -> <<"-", " ",
        "U+0060">> \o tag.name \o <<"U+0060", " ">> \o TemplateString(tag.comment)
    [] tag.tagName = <<"d", "e", "f", "a", "u", "l", "t">> ->
         <<"-", " ", "<", "s", "p", "a", "n", " ", "c", "l", "a", "s", "s", "=", "\"", "t", "a",
               "g", "\"", ">", "d", "e", "f", "a", "u", "l", "t", "<", "/", "s", "p", "a", "n", ">",
               " ", "U+0060">> \o TemplateString(tag.comment) \o <<"U+0060">>
    [] tag.tagName = <<"r", "e", "t", "u", "r", "n", "s">> ->
         <<"-", " ", "<", "s", "p", "a", "n", " ", "c", "l", "a", "s", "s", "=", "\"", "t", "a",
               "g", "\"", ">", "r", "e", "t", "u", "r", "n", "s", "<", "/", "s", "p", "a", "n", ">",
               " ">> \o TemplateString(tag.comment)

\* Whether the switch has a case for the tag.
Handled(tag) == tag.tagName \in {<<"p", "a", "r", "a", "m">>, <<"d", "e", "f", "a", "u", "l", "t">>,
      <<"r", "e", "t", "u", "r", "n", "s">>}

RECURSIVE BulletsUntilUnhandled(_)
\* The loop left at the first tag the switch has no case for.
BulletsUntilUnhandled(tags) ==
  IF tags = <<>> \/ ~Handled(Head(tags)) THEN <<>>
  ELSE <<Bullet(Head(tags))>> \o BulletsUntilUnhandled(Tail(tags))

RECURSIVE Bullets(_)
\* The loop of lines 149-168 over the tags: what it pushes onto bullets.
Bullets(tags) ==
  IF tags = <<>> THEN <<>>
  ELSE (IF Handled(Head(tags)) THEN <<Bullet(Head(tags))>> ELSE <<>>) \o Bullets(Tail(tags))

RECURSIVE Unhandled(_)
\* The same loop: what it prints.
Unhandled(tags) ==
  IF tags = <<>> THEN <<>>
  ELSE (IF Handled(Head(tags)) THEN <<>>
        ELSE <<<<"u", "n", "h", "a", "n", "d", "l", "e", "d", " ", "J", "S", "D", "o", "c", " ",
              "t", "a", "g", ":", " ">> \o Head(tags).tagName>>) \o Unhandled(Tail(tags))

RECURSIVE munge_type_element(_, _)
\* The value munge_type_element(member, depth) returns.
munge_type_element(member, depth) ==
  LET stripped == StripTabs(member.text, depth)
      a == ScanForward(stripped, <<"{">>, 0)
  IN  [name |-> member.name,
       snippet |-> IF HasDocumentedMembers(member)
                   THEN slice(stripped, 0, a + 1) \o <<"/", "*", "...", "*", "/", "}">>
                   ELSE stripped,
       comment |-> IndentToTabs(ReplaceTypeMarkers(
                     IF member.jsDoc = <<>> \/ member.jsDoc[1].comment = Undefined
                     THEN <<>> ELSE member.jsDoc[1].comment)),
       bullets |-> Bullets(TagsOf(member)),
       children |-> IF HasDocumentedMembers(member)
                    THEN [k \in DOMAIN member.type.members |->
                           munge_type_element(member.type.members[k], depth + 1)]
                    ELSE <<>>]

RECURSIVE munge_console(_)
\* What munge_type_element(member, depth) prints: the diagnostics of the nested
\* calls of line 142, then those of its own tags.
munge_console(member) ==
  (IF HasDocumentedMembers(member)
   THEN Concat([k \in DOMAIN member.type.members |-> munge_console(member.type.members[k])])
   ELSE <<>>) \o Unhandled(TagsOf(member))

\* --------------------------------------------------------------------------
\* get_types
\* --------------------------------------------------------------------------

isClassDeclaration(node) == node.kind = "ClassDeclaration"

isInterfaceDeclaration(node) == node.kind = "InterfaceDeclaration"

isTypeAliasDeclaration(node) == node.kind = "TypeAliasDeclaration"

isModuleDeclaration(node) == node.kind = "ModuleDeclaration"

isVariableStatement(node) == node.kind = "VariableStatement"

isFunctionDeclaration(node) == node.kind = "FunctionDeclaration"

\* Line 27 and 28: whether modifiers?.find(...) finds a modifier of kind 93.
export_modifier(statement) ==
  \E k \in DOMAIN statement.modifiers : statement.modifiers[k].kind = ExportKeyword

\* The condition of lines 30-37 without its line 34.
IsDocumentedWithoutModules(statement) ==
  \/ isClassDeclaration(statement)
  \/ isInterfaceDeclaration(statement)
  \/ isTypeAliasDeclaration(statement)
  \/ isVariableStatement(statement)
  \/ isFunctionDeclaration(statement)

\* The condition of lines 30-37.
IsDocumented(statement) ==
  \/ isClassDeclaration(statement)
  \/ isInterfaceDeclaration(statement)
  \/ isTypeAliasDeclaration(statement)
  \/ isModuleDeclaration(statement)
  \/ isVariableStatement(statement)
  \/ isFunctionDeclaration(statement)

\* Lines 38-43: name_node.name?.escapedText
NameOf(statement) ==
  IF isVariableStatement(statement)
  THEN statement.declarationList.declarations[1].name
  ELSE statement.name

\* Lines 46-54: the comment of the record.
CommentOf(statement) ==
  IF statement.jsDoc # <<>> THEN statement.jsDoc[1].comment ELSE <<>>

\* Lines 45-57: start, after `start = i + 6`.
StartOf(code, statement) ==
  LET start == IF statement.jsDoc # <<>> THEN statement.jsDoc[1].end ELSE statement.pos
      i == indexOf(code, <<"e", "x", "p", "o", "r", "t">>, start)
  IN  i + 6

\* Line 62: snippet_unformatted before the interface is collapsed.
SliceOf(code, statement) == trim(slice(code, StartOf(code, statement), statement.end))

\* Whether the statement enters the block of lines 65-84.
Collapses(statement) == isInterfaceDeclaration(statement) /\ Len(statement.members) > 0

\* Lines 74-75: where the loop leaves body_start in snippet, the value of line 62.
BodyStartOf(snippet, start, statement) ==
  ScanBackward(snippet, <<"{">>, statement.members[1].pos - start)

\* Lines 77-78: where the loop leaves body_end.
BodyEndOf(snippet, start, statement) ==
  ScanForward(snippet, <<"}">>, statement.members[Len(statement.members)].end - start)

\* Whether one of the two loops of lines 75 and 78 never stops.
NeverCollapses(code, statement) ==
  LET start == StartOf(code, statement)
      snippet == SliceOf(code, statement)
  IN  /\ Collapses(statement)
      /\ \/ BodyStartOf(snippet, start, statement) = Diverges
         \/ BodyEndOf(snippet, start, statement) = Diverges

\* Lines 62-85: snippet_unformatted as it is handed to the formatter.
SnippetOf(code, statement) ==
  LET start == StartOf(code, statement)
      snippet == SliceOf(code, statement)
  IN  IF Collapses(statement)
      THEN slice(snippet, 0, BodyStartOf(snippet, start, statement) + 1)
             \o <<"/", "*", "...", "*", "/">>
             \o slice(snippet, BodyEndOf(snippet, start, statement), Len(snippet))
      ELSE snippet

\* Lines 64-69: children.
ChildrenOf(statement) ==
  IF Collapses(statement)
  THEN [k \in DOMAIN statement.members |-> munge_type_element(statement.members[k], 1)]
  ELSE <<>>

\* What the calls of line 67 print.
ConsoleOf(statement) ==
  IF Collapses(statement)
  THEN Concat([k \in DOMAIN statement.members |-> munge_console(statement.members[k])])
  ELSE <<>>

\* Line 103: the record pushed for statements[k].  `statement` is not a field of
\* the script's record: it remembers which statement the record was made from.
RecordOf(code, statements, k) ==
  [name |-> NameOf(statements[k]),
   comment |-> CommentOf(statements[k]),
   snippet_unformatted |-> SnippetOf(code, statements[k]),
   children |-> ChildrenOf(statements[k]),
   statement |-> k]

\* Line 99 without its second operand.
ToExportsVariablesOnly(statement) == isVariableStatement(statement)

\* Lines 98-101: whether the record goes to exports.
ToExports(statement) == isVariableStatement(statement) \/ isFunctionDeclaration(statement)

\* The comparefn of lines 107, 108 and 361.
ByName(a, b) == IF LessThan(a.name, b.name) THEN -1 ELSE 1

\* array.sort(ByName) as Node.js runs it.  comparefn never answers 0, so it is no
\* consistent comparison function and the language leaves the order to the
\* engine; V8 sorts an array of fewer than 64 elements by taking the longest
\* run at its start (reversed when it descends) and inserting the elements after
\* it one by one, each at the place a binary search finds for it.
RECURSIVE RunLength(_, _, _)
\* CountAndMakeRun: the length of the run that starts the array, at least `length`.
RunLength(array, descending, length) ==
  IF /\ length < Len(array)
     /\ (ByName(array[length + 1], array[length]) < 0) = descending
  THEN RunLength(array, descending, length + 1)
  ELSE length

RECURSIVE InsertionPoint(_, _, _, _)
\* The binary search of BinaryInsertionSort for pivot in array[left..right - 1].
InsertionPoint(array, pivot, left, right) ==
  IF left < right
  THEN LET mid == left + ((right - left) \div 2)
       IN  IF ByName(pivot, array[mid + 1]) < 0
           THEN InsertionPoint(array, pivot, left, mid)
           ELSE InsertionPoint(array, pivot, mid + 1, right)
  ELSE left

RECURSIVE InsertFrom(_, _)
\* BinaryInsertionSort: the first `start` elements are in place, the others follow.
InsertFrom(array, start) ==
  IF start >= Len(array) THEN array
  ELSE LET pivot == array[start + 1]
           at == InsertionPoint(array, pivot, 0, start)
       IN  InsertFrom(SubSeq(array, 1, at) \o <<pivot>> \o SubSeq(array, at + 1, start)
                        \o SubSeq(array, start + 2, Len(array)),
                      start + 1)

Reverse(s) == [k \in 1..Len(s) |-> s[Len(s) + 1 - k]]

\* An array left as it is.
Unsorted(array) == array

sort(array) ==
  IF Len(array) < 2 THEN array
  ELSE LET descending == ByName(array[2], array[1]) < 0
           run == RunLength(array, descending, 2)
       IN  InsertFrom(IF descending
                      THEN Reverse(SubSeq(array, 1, run)) \o SubSeq(array, run + 1, Len(array))
                      ELSE array,
                      run)

\* --------------------------------------------------------------------------
\* The script around get_types
\* --------------------------------------------------------------------------

RECURSIVE strip_origin(_)
\* str.replace(/https:\/\/svelte\.dev/g, '')
strip_origin(str) ==
  LET origin == <<"h", "t", "t", "p", "s", ":", "/", "/", "s", "v", "e", "l", "t", "e", ".", "d",
        "e", "v">>
      k == indexOf(str, origin, 0)
  IN  IF k = -1 THEN str
      ELSE slice(str, 0, k) \o strip_origin(slice(str, k + Len(origin), Len(str)))

\* Where a match of /(\s*\*\s*)\/\/\/ file:/ that starts at k ends, -1 without one.
FileMarkerEnd(str, k) ==
  LET star == TrimStart(str, k)
      marker == TrimStart(str, Min(star + 1, Len(str)))
  IN  IF CharAt(str, star) = <<"*">> /\ slice(str, marker, marker + 9) = <<"/", "/", "/", " ", "f",
        "i", "l", "e", ":">>
      THEN marker + 9
      ELSE -1

RECURSIVE read_d_ts_file(_)
\* Lines 197-204: str itself, with `// @errors: 7031` put on a comment line of
\* its own before every `/// file:` line of a comment.  str is not read as the
\* name of a file.
read_d_ts_file(str) ==
  LET hits == {k \in 0..(Len(str) - 1) : FileMarkerEnd(str, k) # -1}
  IN  IF hits = {} THEN str
      ELSE LET k == CHOOSE h \in hits : \A j \in hits : h <= j
               end == FileMarkerEnd(str, k)
           IN  slice(str, 0, k) \o slice(str, k, end - 9) \o <<"/", "/", " ", "@", "e", "r", "r",
                 "o", "r", "s", ":", " ", "7", "0", "3", "1">>
                 \o slice(str, k, end) \o read_d_ts_file(slice(str, end, Len(str)))

\* Lines 219-320: the key each block asks bundled_types for, and the name it
\* gives the module, in the order of the blocks.
Blocks ==
  <<[key |-> <<"s", "v", "e", "l", "t", "e", "/", "r", "u", "n", "t", "i", "m", "e">>,
        name |-> <<"s", "v", "e", "l", "t", "e">>],
    [key |-> <<"s", "v", "e", "l", "t", "e", "/", "a", "c", "t", "i", "o", "n">>, name |-> <<"s",
          "v", "e", "l", "t", "e", "/", "a", "c", "t", "i", "o", "n">>],
    [key |-> <<"s", "v", "e", "l", "t", "e", "/", "a", "n", "i", "m", "a", "t", "e">>,
          name |-> <<"s", "v", "e", "l", "t", "e", "/", "a", "n", "i", "m", "a", "t", "e">>],
    [key |-> <<"s", "v", "e", "l", "t", "e", "/", "e", "a", "s", "i", "n", "g">>, name |-> <<"s",
          "v", "e", "l", "t", "e", "/", "e", "a", "s", "i", "n", "g">>],
    [key |-> <<"s", "v", "e", "l", "t", "e", "/", "m", "o", "t", "i", "o", "n">>, name |-> <<"s",
          "v", "e", "l", "t", "e", "/", "m", "o", "t", "i", "o", "n">>],
    [key |-> <<"s", "v", "e", "l", "t", "e", "/", "s", "t", "o", "r", "e">>, name |-> <<"s", "v",
          "e", "l", "t", "e", "/", "s", "t", "o", "r", "e">>],
    [key |-> <<"s", "v", "e", "l", "t", "e", "/", "t", "r", "a", "n", "s", "i", "t", "i", "o",
          "n">>, name |-> <<"s", "v", "e", "l", "t", "e", "/", "t", "r", "a", "n", "s", "i", "t",
          "i", "o", "n">>],
    [key |-> <<"s", "v", "e", "l", "t", "e", "/", "i", "n", "t", "e", "r", "n", "a", "l">>,
          name |-> <<"s", "v", "e", "l", "t", "e", "/", "i", "n", "t", "e", "r", "n", "a", "l">>]>>

\* Line 340: code of the ambient block.
AmbientCode == read_d_ts_file(<<"t", "y", "p", "e", "s", "/", "a", "m", "b", "i", "e", "n", "t",
      ".", "d", ".", "t", "s">>)

\* Line 341: node.statements of the ambient block.  The parser reads the text
\* `types/ambient.d.ts` as one expression statement, a division.
AmbientStatements ==
  <<[kind |-> "ExpressionStatement", pos |-> 0, end |-> Len(AmbientCode)]>>

\* The declaration files get_bundled_types() may hold for a key.
BundledFiles == {<<TypeB, PlainH, ConstA>>, <<InterfaceBar>>}

\* At most so many keys of bundled_types hold a declaration file.
MaxBundled == 2

\* --------------------------------------------------------------------------
\* State
\* --------------------------------------------------------------------------

VARIABLES
  code,          \* get_types: the source text
  statements,    \* get_types: [defined, nodes], the statement list or undefined
  visited,       \* get_types: how many statements the loop of line 24 has gone through
  types,         \* get_types: types
  exports,       \* get_types: exports
  pc,            \* "idle", "for" (in get_types), "returned", or "stuck" (in a loop
                 \* that cannot end)
  console,       \* what console.log has printed
  bundled_types, \* the script: the Map get_bundled_types() resolved to, a function
                 \* from its keys to the declaration files as written
  step,          \* the script: the block it is at; 1..8 the blocks of Blocks, 9 the
                 \* ambient block, 10 after the write (0: get_types on its own)
  ambient,       \* the script: how many statements the loop of line 343 has gone through
  pending,       \* the script: name and comment of the module record being made
  modules,       \* the script: modules
  written        \* the script: what writeFileSync has written, <<modules>>, or <<>>

vars == <<code, statements, visited, types, exports, pc, console, bundled_types, step,
          ambient, pending, modules, written>>

script_vars == <<bundled_types, step, ambient, pending, modules, written>>

\* --------------------------------------------------------------------------
\* get_types, one action per turn of the loop of line 24
\* --------------------------------------------------------------------------

\* The statement the loop is at.
Current == statements.nodes[visited + 1]

InLoop == pc = "for" /\ statements.defined /\ visited < Len(statements.nodes)

\* Lines 25-37: `continue` at a statement without export modifier, and nothing
\* done for an exported statement of another kind.
Skip ==
  /\ InLoop
  /\ ~(export_modifier(Current) /\ IsDocumented(Current))
  /\ visited' = visited + 1
  /\ UNCHANGED <<code, statements, types, exports, pc, console>>
  /\ UNCHANGED script_vars

\* Lines 38-103 for a statement whose loops of lines 75 and 78 stop.
Document ==
  /\ InLoop
  /\ export_modifier(Current) /\ IsDocumented(Current)
  /\ ~NeverCollapses(code, Current)
  /\ console' = console \o ConsoleOf(Current)
  /\ IF ToExports(Current)
     THEN /\ exports' = Append(exports, RecordOf(code, statements.nodes, visited + 1))
          /\ UNCHANGED types
     ELSE /\ types' = Append(types, RecordOf(code, statements.nodes, visited + 1))
          /\ UNCHANGED exports
  /\ visited' = visited + 1
  /\ UNCHANGED <<code, statements, pc>>
  /\ UNCHANGED script_vars

\* Lines 38-78 for an interface at which a loop of line 75 or 78 never stops:
\* the members have been munged, and get_types gets no further.
Spin ==
  /\ InLoop
  /\ export_modifier(Current) /\ IsDocumented(Current)
  /\ NeverCollapses(code, Current)
  /\ console' = console \o ConsoleOf(Current)
  /\ pc' = "stuck"
  /\ UNCHANGED <<code, statements, visited, types, exports>>
  /\ UNCHANGED script_vars

\* Lines 23 and 107-111: after the loop, or at once without a statement list,
\* the two sorts (only with a statement list) and the return.
Return ==
  /\ pc = "for"
  /\ ~statements.defined \/ visited = Len(statements.nodes)
  /\ types' = IF statements.defined THEN sort(types) ELSE types
  /\ exports' = IF statements.defined THEN sort(exports) ELSE exports
  /\ pc' = "returned"
  /\ UNCHANGED <<code, statements, visited, console>>
  /\ UNCHANGED script_vars

\* A statement list, and the undefined one get_types is given for a module
\* without a block.
NodeArray(nodes) == [defined |-> TRUE, nodes |-> nodes]

NoNodeArray == [defined |-> FALSE, nodes |-> <<>>]

\* get_types(c, s) has been called.
Called(c, s) ==
  /\ code = c
  /\ statements = s
  /\ visited = 0
  /\ types = <<>>
  /\ exports = <<>>
  /\ pc = "for"

\* get_types on a declaration file of at most MaxStatements statements, or on
\* the text of a file without a statement list.
Init ==
  /\ \E file \in SeqsUpTo(Statements, MaxStatements) :
       \/ Called(FileText(file), NodeArray(Parse(file)))
       \/ Len(file) = 1 /\ Called(FileText(file), NoNodeArray)
  /\ console = <<>>
  /\ bundled_types = <<>>
  /\ step = 0
  /\ ambient = 0
  /\ pending = [name |-> <<>>, comment |-> <<>>]
  /\ modules = <<>>
  /\ written = <<>>

Next == Skip \/ Document \/ Spin \/ Return

Spec == Init /\ [][Next]_vars

\* --------------------------------------------------------------------------
\* The script, one action per call of get_types and per push
\* --------------------------------------------------------------------------

\* bundled_types.get(key) ?? '', as written
Bundled(key) == IF key \in DOMAIN bundled_types THEN bundled_types[key] ELSE <<>>

\* Lines 219-320, a block up to its call of get_types.
Block ==
  /\ pc = "idle"
  /\ step \in DOMAIN Blocks
  /\ code' = FileText(Bundled(Blocks[step].key))
  /\ statements' = NodeArray(Parse(Bundled(Blocks[step].key)))
  /\ visited' = 0
  /\ types' = <<>>
  /\ exports' = <<>>
  /\ pc' = "for"
  /\ pending' = [name |-> Blocks[step].name, comment |-> <<>>]
  /\ UNCHANGED <<console, bundled_types, step, ambient, modules, written>>

\* modules.push({ name, comment, ...get_types(...) }) of a block or of line 351.
Push ==
  /\ pc = "returned"
  /\ step \in 1..9
  /\ modules' = Append(modules, [name |-> pending.name, comment |-> pending.comment,
                                 types |-> types, exports |-> exports])
  /\ step' = IF step \in DOMAIN Blocks THEN step + 1 ELSE step
  /\ pc' = "idle"
  /\ UNCHANGED <<code, statements, visited, types, exports, console, bundled_types,
                 ambient, pending, written>>

\* Lines 343-358, one turn of the loop up to the call of get_types: only a
\* module declaration makes a module record.
Ambient ==
  /\ pc = "idle"
  /\ step = 9
  /\ ambient < Len(AmbientStatements)
  /\ LET statement == AmbientStatements[ambient + 1]
     IN  IF isModuleDeclaration(statement)
         THEN /\ pending' =
                   [name |-> IF Truthy(statement.name.text) THEN statement.name.text
                             ELSE statement.name.escapedText,
                    comment |-> strip_origin(
                                  IF statement.jsDoc = <<>>
                                       \/ statement.jsDoc[1].comment = Undefined
                                  THEN <<>> ELSE statement.jsDoc[1].comment)]
              /\ code' = AmbientCode
              /\ statements' = statement.body.statements
              /\ visited' = 0
              /\ types' = <<>>
              /\ exports' = <<>>
              /\ pc' = "for"
         ELSE UNCHANGED <<pending, code, statements, visited, types, exports, pc>>
  /\ ambient' = ambient + 1
  /\ UNCHANGED <<console, bundled_types, step, modules, written>>

\* Lines 361-370: the sort of modules and the write.
Write ==
  /\ pc = "idle"
  /\ step = 9
  /\ ambient = Len(AmbientStatements)
  /\ modules' = sort(modules)
  /\ written' = <<modules'>>
  /\ step' = 10
  /\ UNCHANGED <<code, statements, visited, types, exports, pc, console, bundled_types,
                 ambient, pending>>

\* The script from its start, with at most MaxBundled declaration files in
\* bundled_types.
ScriptInit ==
  /\ \E keys \in SUBSET {Blocks[k].key : k \in DOMAIN Blocks} :
       /\ Cardinality(keys) <= MaxBundled
       /\ bundled_types \in [keys -> BundledFiles]
  /\ step = 1
  /\ pc = "idle"
  /\ code = <<>>
  /\ statements = NoNodeArray
  /\ visited = 0
  /\ types = <<>>
  /\ exports = <<>>
  /\ console = <<>>
  /\ ambient = 0
  /\ pending = [name |-> <<>>, comment |-> <<>>]
  /\ modules = <<>>
  /\ written = <<>>

ScriptNext == Block \/ Push \/ Ambient \/ Write \/ Skip \/ Document \/ Spin \/ Return

ScriptSpec == ScriptInit /\ [][ScriptNext]_vars

\* --------------------------------------------------------------------------
\* Properties
\* --------------------------------------------------------------------------

\* The statement a record was made from.
Source(record) == statements.nodes[record.statement]

\* The records made so far.
Records == types \o exports

\* The end of the statement's own export keyword.
ExportEnd(statement) ==
  LET k == CHOOSE j \in DOMAIN statement.modifiers :
             statement.modifiers[j].kind = ExportKeyword
  IN  statement.modifiers[k].end

\* Whether the statement is an interface with at least one member.
HasMembers(statement) ==
  statement.kind = "InterfaceDeclaration" /\ statement.members # <<>>

\* C1: every record in exports comes from a variable statement or a function
\* declaration, every record in types from a class, interface, type alias or
\* namespace/module declaration, and no statement has a record in both.
C1_Partition ==
  /\ \A k \in DOMAIN exports :
       Source(exports[k]).kind \in {"VariableStatement", "FunctionDeclaration"}
  /\ \A k \in DOMAIN types :
       Source(types[k]).kind \in {"ClassDeclaration", "InterfaceDeclaration",
                                  "TypeAliasDeclaration", "ModuleDeclaration"}
  /\ \A j \in DOMAIN exports, k \in DOMAIN types : exports[j].statement # types[k].statement

\* get_types has returned records of a variable statement, a function
\* declaration and an interface.
C1_Witness ==
  /\ pc = "returned"
  /\ \E k \in DOMAIN exports : Source(exports[k]).kind = "VariableStatement"
  /\ \E k \in DOMAIN exports : Source(exports[k]).kind = "FunctionDeclaration"
  /\ \E k \in DOMAIN types : Source(types[k]).kind = "InterfaceDeclaration"

\* C2: the snippet of an exported interface with members is the text from after
\* `export` up to and including the opening brace of the body, one elision
\* marker and the closing brace, and children has one entry per member, in
\* source order.  (The opening brace is the token that ends where the first
\* member's pos is, the closing brace the last token of the statement.)
C2_Collapsed ==
  \A k \in DOMAIN types :
    LET s == Source(types[k])
    IN  HasMembers(s) =>
          /\ types[k].snippet_unformatted =
               trim(slice(code, ExportEnd(s), s.members[1].pos)) \o <<"/", "*", "...", "*", "/">>
                 \o slice(code, s.end - 1, s.end)
          /\ Len(types[k].children) = Len(s.members)
          /\ \A m \in DOMAIN s.members : types[k].children[m].name = s.members[m].name

\* C3: types and exports are returned with their names in non-decreasing order:
\* no record is followed, next to it or later, by one with a smaller name.
C3_Sorted ==
  pc = "returned" =>
    /\ \A j, k \in DOMAIN types : j < k => ~LessThan(types[k].name, types[j].name)
    /\ \A j, k \in DOMAIN exports : j < k => ~LessThan(exports[k].name, exports[j].name)

\* The tags of C4 that make a bullet.
C4_Recognized(tag) == tag.tagName \in {<<"p", "a", "r", "a", "m">>, <<"d", "e", "f", "a", "u", "l",
      "t">>, <<"r", "e", "t", "u", "r", "n", "s">>}

\* The bullets of the recognized tags among tags, in their order.
C4_Expected(tags) ==
  LET recognized == SelectSeq(tags, C4_Recognized)
  IN  [k \in DOMAIN recognized |-> Bullet(recognized[k])]

RECURSIVE C4_BulletsOk(_, _)
\* record, returned for member, and the records of its children hold the
\* expected bullets.
C4_BulletsOk(member, record) ==
  /\ record.bullets = C4_Expected(TagsOf(member))
  /\ \A k \in DOMAIN record.children :
       C4_BulletsOk(member.type.members[k], record.children[k])

RECURSIVE C4_Tags(_, _)
\* The tags of the first JSDoc blocks of member and of the members below it
\* that were munged too.
C4_Tags(member, record) ==
  TagsOf(member)
    \o Concat([k \in DOMAIN record.children |->
                 C4_Tags(member.type.members[k], record.children[k])])

\* The tags of all the members munged for the records made so far.
C4_MungedTags ==
  Concat([k \in DOMAIN types |->
            Concat([m \in DOMAIN types[k].children |->
                      C4_Tags(Source(types[k]).members[m], types[k].children[m])])])

\* C4: the bullets of a member are those of its param, default and returns
\* tags, in the order of the tags, whatever other tags stand between them; and
\* every other tag is reported once, by its name, and nothing else is.
C4_Bullets ==
  /\ \A k \in DOMAIN types : \A m \in DOMAIN types[k].children :
       C4_BulletsOk(Source(types[k]).members[m], types[k].children[m])
  /\ pc # "stuck" =>
       LET others == SelectSeq(C4_MungedTags, LAMBDA tag : ~C4_Recognized(tag))
       IN  /\ Len(console) = Len(others)
           /\ \A k \in DOMAIN others :
                LET line == <<"u", "n", "h", "a", "n", "d", "l", "e", "d", " ", "J", "S", "D", "o",
                      "c", " ", "t", "a", "g", ":", " ">> \o others[k].tagName
                IN  Cardinality({j \in DOMAIN console : console[j] = line})
                      = Cardinality({j \in DOMAIN others :
                                       others[j].tagName = others[k].tagName})

\* get_types has returned the record of a member whose block holds a tag
\* without bullet between tags with one: three bullets and one diagnostic.
C4_Witness ==
  /\ pc = "returned"
  /\ \E k \in DOMAIN types : \E m \in DOMAIN types[k].children :
       LET tags == TagsOf(Source(types[k]).members[m])
       IN  /\ Len(tags) = 4
           /\ C4_Recognized(tags[1]) /\ ~C4_Recognized(tags[2]) /\ C4_Recognized(tags[3])
           /\ Len(types[k].children[m].bullets) = 3
  /\ Len(console) = 1

\* Whether statement k has an export modifier and one of the six kinds.
C5_Exported(k) ==
  /\ \E m \in DOMAIN statements.nodes[k].modifiers :
       statements.nodes[k].modifiers[m].kind = ExportKeyword
  /\ statements.nodes[k].kind \in
       {"ClassDeclaration", "InterfaceDeclaration", "TypeAliasDeclaration",
        "ModuleDeclaration", "VariableStatement", "FunctionDeclaration"}

\* C5: the statements the loop has gone through have one record each if they
\* are exported and of one of the six kinds, and none otherwise; so at the
\* return there are as many records as such statements.
C5_OneRecordEach ==
  /\ {Records[k].statement : k \in DOMAIN Records} = {k \in 1..visited : C5_Exported(k)}
  /\ \A j, k \in DOMAIN Records : j # k => Records[j].statement # Records[k].statement
  /\ Len(types) + Len(exports) = Cardinality({k \in 1..visited : C5_Exported(k)})

\* get_types has returned one record for a list that holds a statement without
\* export modifier, an exported statement of another kind and a documented one.
C5_Witness ==
  /\ pc = "returned"
  /\ Len(types) + Len(exports) = 1
  /\ \E k \in DOMAIN statements.nodes : statements.nodes[k].modifiers = <<>>
  /\ \E k \in DOMAIN statements.nodes :
       statements.nodes[k].modifiers # <<>> /\ ~C5_Exported(k)

\* C6: the snippet of a record (here of every statement that is not collapsed)
\* is the source text from the end of the statement's own export keyword to the
\* end of the statement, trimmed.
C6_SnippetAfterExport ==
  \A k \in DOMAIN Records :
    LET s == Source(Records[k])
    IN  ~HasMembers(s) =>
          Records[k].snippet_unformatted = trim(slice(code, ExportEnd(s), s.end))

\* C7: the comment of a record is a string: empty without a JSDoc block, else
\* the description of the first block, empty when that block has none.
C7_CommentIsString ==
  \A k \in DOMAIN Records :
    LET s == Source(Records[k])
    IN  /\ Records[k].comment # Undefined
        /\ Records[k].comment =
             (IF s.jsDoc = <<>> \/ s.jsDoc[1].comment = Undefined
              THEN <<>> ELSE s.jsDoc[1].comment)

\* C8: the module list the script writes is sorted by name, ascending, and no
\* two of its records have the same name.
C8_SortedUnique ==
  written # <<>> =>
    \A j, k \in DOMAIN written[1] :
      j < k => StringLess(written[1][j].name, written[1][k].name)

\* The script has written the list, with a record for each of the eight blocks
\* and one of them with an export.
C8_Witness ==
  /\ written # <<>>
  /\ Len(written[1]) = Len(Blocks)
  /\ \E k \in DOMAIN written[1] : written[1][k].exports # <<>>

\* C9: get_types never ends up in a loop that cannot end: the scans of lines 75
\* and 78 stop inside the snippet.
C9_Terminates == pc # "stuck"

RECURSIVE C10_ChildrenOk(_, _)
\* record, returned for member, has children exactly when member is a property
\* with a type literal of which a member has a JSDoc block; the same below it.
C10_ChildrenOk(member, record) ==
  /\ (record.children # <<>>) <=>
       /\ member.kind = "PropertySignature"
       /\ member.type.kind = "TypeLiteral"
       /\ \E k \in DOMAIN member.type.members : member.type.members[k].jsDoc # <<>>
  /\ \A k \in DOMAIN record.children :
       C10_ChildrenOk(member.type.members[k], record.children[k])

\* C10: munge_type_element returns children exactly for a property whose type
\* is a type literal with a documented member, whether that member's block has
\* a description or only tags.
C10_Children ==
  \A k \in DOMAIN types : \A m \in DOMAIN types[k].children :
    C10_ChildrenOk(Source(types[k]).members[m], types[k].children[m])

====
